---------------------------- MODULE Spec2Model ----------------------------
(***************************************************************************)
(* Model of the item layer of spead2 (src/spead2/__init__.py): the bit     *)
(* stream generators, the format codec, Descriptor.dynamic_shape, Item     *)
(* (value setter, set_from_raw, to_buffer) and ItemGroup (_add_item,       *)
(* add_item, update).                                                      *)
(*                                                                         *)
(* Conventions.                                                            *)
(*  - Python's None is the empty sequence <<>>, a present value v is <<v>>.*)
(*  - A Python list or tuple is a TLA+ sequence; a character is the record *)
(*    [ch |-> code point]; a bool is a BOOLEAN.                            *)
(*  - An operation that can raise returns a record with a field err:       *)
(*    "none" when it returns normally, else the exception's name.          *)
(*  - A generator is the record of its local variables; send() and close() *)
(*    are operators from one such record to the next.                      *)
(*  - The numeric-array library is modelled by what the calls used here do *)
(*    (slice, view, byteswap, reshape, product).  Field widths stay below  *)
(*    31 bits, so 'f' fields (32 or 64 bits) are translated but not run.   *)
(***************************************************************************)
EXTENDS Integers, Sequences, FiniteSets, TLC

VARIABLES
    writer,     \* the _write_bits generator under test
    reader,     \* the _read_bits generator under test (<<>> before it is made)
    sent,       \* the (value, bits) pairs sent to the writer, in order
    asked,      \* the widths sent to the reader, in order
    taken,      \* the values the reader returned, in order
    item,       \* one Item: descriptor, _value, version
    io,         \* the last call on item and its outcome
    objs,       \* the Item objects ever constructed for the group, by identity
    by_id,      \* ItemGroup._by_id: id -> object identity
    by_name,    \* ItemGroup._by_name: name -> object identity
    last        \* the last call on the group and its outcome

bitVars == <<writer, reader, sent, asked, taken>>
itemVars == <<item, io>>
groupVars == <<objs, by_id, by_name, last>>
vars == <<writer, reader, sent, asked, taken, item, io, objs, by_id, by_name, last>>

----------------------------------------------------------------------------
(* Bounds of the model *)

MaxWidth == 9        \* widest bit field sent to the bit writer / reader
MaxPuts == 3         \* longest sequence of puts
MaxBytes == 4        \* largest buffer handed to the bit writer
MaxLen == 2          \* longest list given for an unknown dimension
MaxBuf == 3          \* longest raw buffer handed to set_from_raw on a used item
MaxPadBuf == 4       \* longest raw buffer handed to set_from_raw on a new item
MaxVersion == 3      \* assignments stop when an item's version reaches it
MaxCnt == 2          \* largest heap cnt, and the cap on versions in a group
MaxRank == 3         \* longest shape handed to dynamic_shape
MaxElements == 7     \* largest max_elements handed to dynamic_shape

\* the bytes of the raw buffers: all bits clear, top and bottom bit set, all set
ByteVals == {0, 129, 255}

----------------------------------------------------------------------------
(* Arithmetic helpers: Python's <<, >>, & (2^k - 1), product *)

RECURSIVE Pow2(_)
Pow2(n) == IF n <= 0 THEN 1 ELSE 2 * Pow2(n - 1)

Shl(x, n) == x * Pow2(n)
Shr(x, n) == x \div Pow2(n)
LowBits(x, n) == x % Pow2(n)

RECURSIVE Product(_)
Product(s) == IF s = <<>> THEN 1 ELSE Head(s) * Product(Tail(s))

None == <<>>
Some(v) == <<v>>

----------------------------------------------------------------------------
(* Item._write_bits: the generator's locals are array, pos, current,       *)
(* current_bits; err records the exception that ended it.                  *)

WriteBitsNew(size) ==
    [array |-> [i \in 1..size |-> 0], pos |-> 0, current |-> 0,
     current_bits |-> 0, err |-> "none", closed |-> FALSE]

\* the inner loop: while current_bits >= 8, store the top byte at array[pos]
RECURSIVE WriteBitsFlush(_)
WriteBitsFlush(w) ==
    IF w.current_bits < 8 THEN w
    ELSE IF w.pos >= Len(w.array) THEN [w EXCEPT !.err = "IndexError"]
    ELSE WriteBitsFlush(
            [w EXCEPT !.array[w.pos + 1] = Shr(w.current, w.current_bits - 8),
                      !.current = LowBits(w.current, w.current_bits - 8),
                      !.current_bits = w.current_bits - 8,
                      !.pos = w.pos + 1])

WriteBitsInRange(value, bits) == ~(value < 0 \/ value >= Shl(1, bits))

\* gen.send((value, bits))
WriteBitsSend(w, value, bits) ==
    IF w.err # "none" \/ w.closed THEN [w EXCEPT !.err = "StopIteration"]
    ELSE IF ~WriteBitsInRange(value, bits) THEN [w EXCEPT !.err = "ValueError"]
    ELSE WriteBitsFlush([w EXCEPT !.current = Shl(w.current, bits) + value,
                                  !.current_bits = w.current_bits + bits])

\* gen.close(): GeneratorExit is raised at the yield
WriteBitsClose(w) ==
    IF w.err # "none" \/ w.closed THEN [w EXCEPT !.closed = TRUE]
    ELSE IF w.current_bits > 0
         THEN IF w.pos >= Len(w.array)
              THEN [w EXCEPT !.err = "IndexError", !.closed = TRUE]
              ELSE [w EXCEPT !.current = Shl(w.current, 8 - w.current_bits),
                             !.array[w.pos + 1] = Shl(w.current, 8 - w.current_bits),
                             !.closed = TRUE]
         ELSE [w EXCEPT !.closed = TRUE]

----------------------------------------------------------------------------
(* Item._read_bits: locals have_bits, bits, byte_source (src and the count *)
(* next of bytes already drawn), result.                                   *)

ReadBitsNew(raw_value) ==
    [src |-> raw_value, next |-> 0, have_bits |-> 0, bits |-> 0,
     result |-> 0, err |-> "none"]

\* the inner loop: while have_bits < need_bits, shift in the next byte
RECURSIVE ReadBitsFill(_, _)
ReadBitsFill(r, need_bits) ==
    IF r.have_bits >= need_bits THEN r
    ELSE IF r.next >= Len(r.src) THEN [r EXCEPT !.err = "StopIteration"]
    ELSE ReadBitsFill([r EXCEPT !.bits = Shl(r.bits, 8) + r.src[r.next + 1],
                                !.have_bits = r.have_bits + 8,
                                !.next = r.next + 1], need_bits)

\* the extraction gone wrong: the low bits are returned instead of the high
ReadBitsExtractLow(f, need_bits) ==
    [f EXCEPT !.result = LowBits(f.bits, need_bits),
              !.bits = Shr(f.bits, need_bits),
              !.have_bits = f.have_bits - need_bits]

ReadBitsExtract(f, need_bits) ==
    [f EXCEPT !.result = Shr(f.bits, f.have_bits - need_bits),
              !.bits = LowBits(f.bits, f.have_bits - need_bits),
              !.have_bits = f.have_bits - need_bits]

\* gen.send(need_bits); the value returned is the field result
ReadBitsSend(r, need_bits) ==
    IF r.err # "none" THEN r
    ELSE LET f == ReadBitsFill(r, need_bits)
         IN IF f.err # "none" THEN f ELSE ReadBitsExtract(f, need_bits)

----------------------------------------------------------------------------
(* Descriptor.  A descriptor is the record                                 *)
(*   [id, name, shape, dtype, order, format]                               *)
(* (the description text plays no part in the codec and is left out).      *)
(* dtype is None or Some(sequence of fields [kind, size, byteorder]): a    *)
(* one-field sequence is a plain dtype, a longer one a compound dtype.     *)
(* format is None or Some(sequence of <<code, length>>).                   *)

DtypeField(code, length) ==
    IF code = "c" THEN [kind |-> "S", size |-> 1, byteorder |-> "|"]
    ELSE [kind |-> code, size |-> length \div 8,
          byteorder |-> IF length \div 8 = 1 THEN "|" ELSE ">"]

FieldIsDtypeCompatible(code, length) ==
    \/ code \in {"u", "i"} /\ length \in {8, 16, 32, 64}
    \/ code = "f" /\ length \in {32, 64}
    \/ code = "b" /\ length = 8
    \/ code = "c" /\ length = 8

\* Descriptor._parse_format: the numpy dtype of a format, None if a field
\* is unsupported
_parse_format(fmt) ==
    IF \A k \in 1..Len(fmt) : FieldIsDtypeCompatible(fmt[k][1], fmt[k][2])
    THEN Some([k \in 1..Len(fmt) |-> DtypeField(fmt[k][1], fmt[k][2])])
    ELSE None

\* Descriptor.__init__
DescriptorNew(id, name, shape, dtype, order, format) ==
    IF dtype # None /\ format # None THEN [err |-> "ValueError"]
    ELSE IF dtype = None /\ format = None THEN [err |-> "ValueError"]
    ELSE IF dtype = None /\ order # "C" THEN [err |-> "ValueError"]
    ELSE IF order \notin {"C", "F"} THEN [err |-> "ValueError"]
    ELSE LET reduced == IF dtype = None THEN _parse_format(format[1]) ELSE dtype
         IN [err |-> "none", id |-> id, name |-> name, shape |-> shape,
             dtype |-> reduced, order |-> order,
             format |-> IF dtype = None /\ reduced = None THEN format ELSE None]

\* Descriptor.is_variable_size
is_variable_size(d) == \E k \in 1..Len(d.shape) : d.shape[k] < 0

\* the loop of dynamic_shape over enumerate(self.shape), from position i on
RECURSIVE DynamicShapeScan(_, _, _, _)
DynamicShapeScan(shape, i, known, unknown_pos) ==
    IF i > Len(shape) THEN [err |-> "none", known |-> known, unknown_pos |-> unknown_pos]
    ELSE IF shape[i] >= 0
         THEN DynamicShapeScan(shape, i + 1, known * shape[i], unknown_pos)
    ELSE IF unknown_pos >= 0
         THEN [err |-> "TypeError", known |-> known, unknown_pos |-> unknown_pos]
    ELSE DynamicShapeScan(shape, i + 1, known, i - 1)

\* the resolution gone wrong: the unknown takes all of max_elements
DynamicShapeResolveAll(known, max_elements) ==
    IF known = 0 THEN 0 ELSE max_elements

DynamicShapeResolve(known, max_elements) ==
    IF known = 0 THEN 0 ELSE max_elements \div known

\* Descriptor.dynamic_shape (unknown_pos counts from 0, as in the source)
dynamic_shape(shape, max_elements) ==
    LET s == DynamicShapeScan(shape, 1, 1, -1)
    IN IF s.err # "none" THEN [err |-> s.err, shape |-> shape]
       ELSE IF s.unknown_pos = -1 THEN [err |-> "none", shape |-> shape]
       ELSE [err |-> "none",
             shape |-> [shape EXCEPT ![s.unknown_pos + 1] =
                                DynamicShapeResolve(s.known, max_elements)]]

\* Descriptor.compatible_shape
compatible_shape(d, shape) ==
    /\ Len(shape) = Len(d.shape)
    /\ \A k \in 1..Len(shape) : ~(d.shape[k] >= 0 /\ d.shape[k] # shape[k])

----------------------------------------------------------------------------
(* The format codec: Item._store_recursive and Item._load_recursive.       *)
(* gen is the generator record; an exception raised by the codec itself is *)
(* recorded in the generator's err, as it ends the call all the same.      *)

Chr(n) == [ch |-> n]
Ord(c) == c.ch

\* the 'i' branch of _store_recursive: raw = field; if raw < 0: raw += top_bit
StoreSigned(field, length) ==
    IF field < 0 THEN field + Shl(1, length - 1) ELSE field

\* one field of _store_recursive: the raw bits of a field value
StoreField(code, length, field) ==
    CASE code = "u" ->
           IF field < 0 \/ field >= Shl(1, length)
           THEN [err |-> "ValueError", raw |-> 0]
           ELSE [err |-> "none", raw |-> field]
      [] code = "i" ->
           IF field < -Shl(1, length - 1) \/ field >= Shl(1, length - 1)
           THEN [err |-> "ValueError", raw |-> 0]
           ELSE [err |-> "none", raw |-> StoreSigned(field, length)]
      [] code = "b" -> [err |-> "none", raw |-> IF field THEN 1 ELSE 0]
      [] code = "c" -> [err |-> "none", raw |-> Ord(field)]
      [] code = "f" ->
           IF length \in {32, 64}
           THEN [err |-> "none", raw |-> field.bits]
           ELSE [err |-> "ValueError", raw |-> 0]
      [] OTHER -> [err |-> "ValueError", raw |-> 0]

\* the loop over zip(self.format, value), from field k on
RECURSIVE StoreRecord(_, _, _, _)
StoreRecord(fmt, value, k, gen) ==
    IF gen.err # "none" \/ k > Len(fmt) \/ k > Len(value) THEN gen
    ELSE LET f == StoreField(fmt[k][1], fmt[k][2], value[k])
         IN IF f.err # "none" THEN [gen EXCEPT !.err = f.err]
            ELSE StoreRecord(fmt, value, k + 1,
                             WriteBitsSend(gen, f.raw, fmt[k][2]))

RECURSIVE _store_recursive(_, _, _, _)
RECURSIVE StoreEach(_, _, _, _, _)
\* the loop "for sub in value", from element k on
StoreEach(fmt, shape, value, k, gen) ==
    IF gen.err # "none" \/ k > Len(value) THEN gen
    ELSE StoreEach(fmt, shape, value, k + 1,
                   _store_recursive(fmt, shape, value[k], gen))

\* Item._store_recursive (a leaf of the values drawn here is never a list)
_store_recursive(fmt, expected_shape, value, gen) ==
    IF Len(expected_shape) > 0
    THEN IF expected_shape[1] >= 0 /\ expected_shape[1] # Len(value)
         THEN [gen EXCEPT !.err = "ValueError"]
         ELSE StoreEach(fmt, Tail(expected_shape), value, 1, gen)
    ELSE StoreRecord(fmt, IF Len(fmt) = 1 THEN <<value>> ELSE value, 1, gen)

\* the 'i' branch of _load_recursive
LoadSigned(raw, length) ==
    IF raw >= Shl(1, length - 1) THEN raw - Shl(1, length) ELSE raw

\* one field of _load_recursive: the field value of raw bits
LoadField(code, length, raw) ==
    CASE code = "u" -> [err |-> "none", field |-> Some(raw)]
      [] code = "i" -> [err |-> "none", field |-> Some(LoadSigned(raw, length))]
      [] code = "b" -> [err |-> "none", field |-> Some(raw # 0)]
      [] code = "c" -> [err |-> "none", field |-> Some(Chr(raw))]
      [] code = "f" ->
           IF length \in {32, 64}
           THEN [err |-> "none", field |-> Some([bits |-> raw])]
           ELSE [err |-> "ValueError", field |-> None]
      [] OTHER -> [err |-> "ValueError", field |-> None]

\* the loop over self.format, from field k on; fields collects the record
RECURSIVE LoadRecord(_, _, _, _)
LoadRecord(fmt, k, fields, gen) ==
    IF k > Len(fmt)
    THEN [val |-> IF Len(fields) = 1 THEN fields[1] ELSE fields, gen |-> gen]
    ELSE LET g == ReadBitsSend(gen, fmt[k][2])
         IN IF g.err # "none" THEN [val |-> fields, gen |-> g]
            ELSE LET f == LoadField(fmt[k][1], fmt[k][2], g.result)
                 IN IF f.err # "none"
                    THEN [val |-> fields, gen |-> [g EXCEPT !.err = f.err]]
                    ELSE LoadRecord(fmt, k + 1, Append(fields, f.field[1]), g)

RECURSIVE _load_recursive(_, _, _)
RECURSIVE LoadEach(_, _, _, _, _)
\* the loop "for i in range(shape[0])", with i elements (ans) loaded so far
LoadEach(fmt, shape, i, ans, gen) ==
    IF i >= shape[1] THEN [val |-> ans, gen |-> gen]
    ELSE LET sub == _load_recursive(fmt, Tail(shape), gen)
         IN IF sub.gen.err # "none" THEN [val |-> ans, gen |-> sub.gen]
            ELSE LoadEach(fmt, shape, i + 1, Append(ans, sub.val), sub.gen)

\* Item._load_recursive
_load_recursive(fmt, shape, gen) ==
    IF Len(shape) > 0 THEN LoadEach(fmt, shape, 0, <<>>, gen)
    ELSE LoadRecord(fmt, 1, <<>>, gen)

----------------------------------------------------------------------------
(* The numeric-array calls used by Item, by what they do.  An array value  *)
(* is [nd |-> TRUE, v |-> nested sequences]; any other value (a scalar, a  *)
(* string, a nested list given by the caller) is [nd |-> FALSE, v |-> it]. *)

\* Python's buffer[-n:] for n >= 0: -0 is 0, so n = 0 takes the whole buffer
PySuffix(buf, n) ==
    IF n = 0 \/ n >= Len(buf) THEN buf ELSE SubSeq(buf, Len(buf) - n + 1, Len(buf))

\* Python's buffer[:n] for n >= 0
PyPrefix(buf, n) == IF n >= Len(buf) THEN buf ELSE SubSeq(buf, 1, n)

RECURSIVE DtypeItemsize(_)
DtypeItemsize(dtype) ==
    IF dtype = <<>> THEN 0 ELSE Head(dtype).size + DtypeItemsize(Tail(dtype))

\* the unsigned integer of bytes, most significant byte first
RECURSIVE BigEndian(_)
BigEndian(bytes) ==
    IF bytes = <<>> THEN 0
    ELSE bytes[Len(bytes)] + 256 * BigEndian(SubSeq(bytes, 1, Len(bytes) - 1))

RECURSIVE Reverse(_)
Reverse(s) == IF s = <<>> THEN <<>> ELSE Append(Reverse(Tail(s)), Head(s))

\* the value of one field of a dtype held in bytes ("=" and "<" are the
\* little-endian orders of the host)
DtypeFieldValue(f, bytes) ==
    LET n == IF f.byteorder = ">" THEN BigEndian(bytes) ELSE BigEndian(Reverse(bytes))
    IN CASE f.kind = "u" -> n
         [] f.kind = "i" -> IF n >= Shl(1, 8 * f.size - 1) THEN n - Shl(1, 8 * f.size) ELSE n
         [] f.kind = "b" -> n # 0
         [] OTHER -> Chr(n)

RECURSIVE DtypeFields(_, _)
DtypeFields(dtype, bytes) ==
    IF dtype = <<>> THEN <<>>
    ELSE <<DtypeFieldValue(Head(dtype), SubSeq(bytes, 1, Head(dtype).size))>>
         \o DtypeFields(Tail(dtype), SubSeq(bytes, Head(dtype).size + 1, Len(bytes)))

\* one element of array.view(dtype): a scalar, or a record of a compound dtype
DtypeElement(dtype, bytes) ==
    IF Len(dtype) = 1 THEN DtypeFieldValue(dtype[1], bytes) ELSE DtypeFields(dtype, bytes)

\* array1d.view(dtype=dtype) of a byte array whose length is a multiple of
\* the itemsize (the byte swap of a non-native dtype changes no value)
NpView(dtype, bytes) ==
    LET size == DtypeItemsize(dtype)
    IN [k \in 1..(Len(bytes) \div size) |->
            DtypeElement(dtype, SubSeq(bytes, (k - 1) * size + 1, k * size))]

\* the element at each index of numpy.reshape(flat, shape, order): base and
\* stride locate the elements of the current axis
RECURSIVE NpNest(_, _, _, _, _)
NpNest(flat, shape, order, base, stride) ==
    IF shape = <<>> THEN flat[base + 1]
    ELSE IF order = "F"
         THEN [i \in 1..shape[1] |->
                 NpNest(flat, Tail(shape), order, base + (i - 1) * stride, stride * shape[1])]
         ELSE [i \in 1..shape[1] |->
                 NpNest(flat, Tail(shape), order,
                        base + (i - 1) * Product(Tail(shape)), stride)]

\* numpy.reshape(flat, shape, order): shape may hold one -1, which numpy
\* infers; it raises ValueError when the sizes do not agree
NpReshape(flat, shape, order) ==
    LET s == DynamicShapeScan(shape, 1, 1, -1)
        resolved ==
            IF s.unknown_pos = -1 THEN shape
            ELSE [shape EXCEPT ![s.unknown_pos + 1] = Len(flat) \div s.known]
    IN IF s.err # "none" THEN [err |-> "ValueError", v |-> <<>>]
       ELSE IF s.unknown_pos # -1 /\ (s.known = 0 \/ Len(flat) % s.known # 0)
            THEN [err |-> "ValueError", v |-> <<>>]
       ELSE IF Product(resolved) # Len(flat) THEN [err |-> "ValueError", v |-> <<>>]
       ELSE [err |-> "none", v |-> Some(NpNest(flat, resolved, order, 0, 1))]

\* b''.join(value).decode('ascii') of an array of single bytes: numpy gives
\* a NUL byte as the empty string, and a byte above 127 is no ASCII
RECURSIVE JoinAscii(_)
JoinAscii(chars) ==
    IF chars = <<>> THEN [err |-> "none", v |-> <<>>]
    ELSE LET rest == JoinAscii(Tail(chars))
         IN IF Ord(Head(chars)) > 127 \/ rest.err # "none"
            THEN [err |-> "UnicodeDecodeError", v |-> <<>>]
            ELSE [err |-> "none",
                  v |-> (IF Ord(Head(chars)) = 0 THEN <<>> ELSE <<Head(chars)>>) \o rest.v]

DtypeS1 == <<[kind |-> "S", size |-> 1, byteorder |-> "|"]>>

----------------------------------------------------------------------------
(* Item: a descriptor with the fields _value and version *)

\* Item.__init__: Descriptor.__init__, then _value and version = 1
ItemNew(id, name, shape, dtype, order, format, value) ==
    LET d == DescriptorNew(id, name, shape, dtype, order, format)
    IN IF d.err # "none" THEN [err |-> d.err, item |-> None]
       ELSE [err |-> "none",
             item |-> Some([id |-> d.id, name |-> d.name, shape |-> d.shape,
                            dtype |-> d.dtype, order |-> d.order,
                            format |-> d.format, _value |-> value, version |-> 1])]

\* the setter gone wrong: the version is left alone
ValueSetterNoBump(it, new_value) ==
    IF new_value = None THEN [err |-> "ValueError", item |-> it]
    ELSE [err |-> "none", item |-> [it EXCEPT !._value = new_value]]

\* the setter of Item.value
ValueSetter(it, new_value) ==
    IF new_value = None THEN [err |-> "ValueError", item |-> it]
    ELSE [err |-> "none",
          item |-> [it EXCEPT !._value = new_value, !.version = it.version + 1]]

\* bit_length of a format: the sum of its field lengths
RECURSIVE FormatBits(_)
FormatBits(fmt) == IF fmt = <<>> THEN 0 ELSE Head(fmt)[2] + FormatBits(Tail(fmt))

\* the undersize test gone wrong: it is not made
UndersizeNever(elements, max_elements) == FALSE

\* the test "elements > max_elements" of set_from_raw
Undersize(elements, max_elements) == elements > max_elements

\* set_from_raw, the branch self.dtype is None (format mode)
SetFromRawFormat(it, raw_item) ==
    LET fmt == it.format[1]
        bit_length == FormatBits(fmt)
        max_elements == (Len(raw_item.value) * 8) \div bit_length
        ds == dynamic_shape(it.shape, max_elements)
        elements == Product(ds.shape)
        size_bytes == (elements * bit_length + 7) \div 8
        raw_value == IF raw_item.is_immediate
                     THEN PySuffix(raw_item.value, size_bytes)
                     ELSE raw_item.value
        ld == _load_recursive(fmt, ds.shape, ReadBitsNew(raw_value))
    IN IF ds.err # "none" THEN [err |-> ds.err, item |-> it]
       ELSE IF Undersize(elements, max_elements) THEN [err |-> "ValueError", item |-> it]
       ELSE IF ld.gen.err # "none" THEN [err |-> ld.gen.err, item |-> it]
       ELSE ValueSetter(it, Some([nd |-> TRUE, v |-> ld.val]))

\* set_from_raw, the branch with a dtype
SetFromRawDtype(it, raw_item) ==
    LET dtype == it.dtype[1]
        itemsize == DtypeItemsize(dtype)
        max_elements == Len(raw_item.value) \div itemsize
        ds == dynamic_shape(it.shape, max_elements)
        elements == Product(ds.shape)
        size_bytes == elements * itemsize
        array1d == IF raw_item.is_immediate
                   THEN PySuffix(raw_item.value, size_bytes)
                   ELSE PyPrefix(raw_item.value, size_bytes)
        value == NpReshape(NpView(dtype, array1d), it.shape, it.order)
        joined == JoinAscii(value.v[1])
    IN IF ds.err # "none" THEN [err |-> ds.err, item |-> it]
       ELSE IF Undersize(elements, max_elements) THEN [err |-> "ValueError", item |-> it]
       ELSE IF Len(array1d) % itemsize # 0 THEN [err |-> "ValueError", item |-> it]
       ELSE IF value.err # "none" THEN [err |-> value.err, item |-> it]
       ELSE IF Len(it.shape) = 0
            THEN ValueSetter(it, Some([nd |-> FALSE, v |-> value.v[1]]))
       ELSE IF Len(it.shape) = 1 /\ dtype = DtypeS1
            THEN IF joined.err # "none" THEN [err |-> joined.err, item |-> it]
                 ELSE ValueSetter(it, Some([nd |-> FALSE, v |-> joined.v]))
       ELSE ValueSetter(it, Some([nd |-> TRUE, v |-> value.v[1]]))

\* Item.set_from_raw; raw_item is [id, value, is_immediate]
set_from_raw(it, raw_item) ==
    IF it.dtype = None THEN SetFromRawFormat(it, raw_item)
    ELSE SetFromRawDtype(it, raw_item)

\* the loop of _num_elements over self.shape, from dimension k on
RECURSIVE NumElementsWalk(_, _, _, _)
NumElementsWalk(shape, k, cur, ans) ==
    IF k > Len(shape) THEN ans
    ELSE IF ans * Len(cur) = 0 THEN 0
    ELSE NumElementsWalk(shape, k + 1, cur[1], ans * Len(cur))

\* Item._num_elements: for an array value it returns value.shape, a tuple
\* and no number (n is then meaningless)
_num_elements(it) ==
    IF it._value[1].nd THEN [is_tuple |-> TRUE, n |-> 0]
    ELSE [is_tuple |-> FALSE, n |-> NumElementsWalk(it.shape, 1, it._value[1].v, 1)]

\* Item.to_buffer, format mode (self.dtype is None): with a tuple for
\* _num_elements, bit_length is a tuple and (bit_length + 7) a TypeError
to_buffer(it) ==
    IF it._value = None THEN [err |-> "ValueError", out |-> <<>>]
    ELSE LET fmt == it.format[1]
             num == _num_elements(it)
             bit_length == FormatBits(fmt) * num.n
             gen0 == WriteBitsNew((bit_length + 7) \div 8)
             gen1 == _store_recursive(fmt, it.shape, it._value[1].v, gen0)
             gen2 == WriteBitsClose(gen1)
         IN IF num.is_tuple THEN [err |-> "TypeError", out |-> <<>>]
            ELSE IF gen1.err # "none" THEN [err |-> gen1.err, out |-> <<>>]
            ELSE [err |-> gen2.err, out |-> gen2.array]

----------------------------------------------------------------------------
(* ItemGroup.  An Item object is reachable from the group when _by_id or   *)
(* _by_name holds it.  _add_item stores a new item under both its keys, so *)
(* of two objects with the same id and the same name only the later one is *)
(* reachable: the pair <<id, name>> identifies a reachable object.  objs   *)
(* maps each pair to None or Some(item); by_id[i] = Some(n) says that      *)
(* _by_id[i] is the object <<i, n>>, by_name[n] = Some(i) that _by_name[n] *)
(* is the object <<i, n>>.  A group is the record [objs, by_id, by_name].  *)

\* the ids of descriptors and of raw items; 5 is a reserved id
ItemIds == {5, 10, 11}
Names == {"a", "b"}
\* the <<id, name>> pairs of the descriptors offered to the group: one
\* with a reserved id, and two that share a name
ObjKeys == {<<5, "a">>, <<10, "b">>, <<11, "b">>}

\* raw_item.id <= 6: special fields, not real items
ReservedIdMax == 6

GroupNew ==
    [objs |-> [k \in ObjKeys |-> None],
     by_id |-> [i \in ItemIds |-> None],
     by_name |-> [n \in Names |-> None]]

\* an object no mapping holds any more is gone
Collect(g) ==
    [g EXCEPT !.objs = [k \in ObjKeys |->
        IF g.by_id[k[1]] = Some(k[2]) \/ g.by_name[k[2]] = Some(k[1])
        THEN g.objs[k] ELSE None]]

\* ItemGroup._add_item (the log line is no state)
_add_item(g, it) ==
    [objs |-> [g.objs EXCEPT ![<<it.id, it.name>>] = Some(it)],
     by_id |-> [g.by_id EXCEPT ![it.id] = Some(it.name)],
     by_name |-> [g.by_name EXCEPT ![it.name] = Some(it.id)]]

\* dtype.newbyteorder(): the byte order of each field swapped
NewByteOrder(dtype) ==
    [k \in 1..Len(dtype) |->
        [dtype[k] EXCEPT !.byteorder =
            CASE dtype[k].byteorder = ">" -> "<"
              [] dtype[k].byteorder \in {"<", "="} -> ">"
              [] OTHER -> dtype[k].byteorder]]

\* Descriptor.from_raw called on Item.  numpy_header is None (the empty
\* string) or Some of the dictionary [shape, fortran_order, descr] that
\* _parse_numpy_header reads from the text; bug_compat is the set of flags
from_raw(raw_descriptor, bug_compat) ==
    IF raw_descriptor.numpy_header # None
    THEN LET h == raw_descriptor.numpy_header[1]
             dtype == IF "SWAP_ENDIAN" \in bug_compat
                      THEN NewByteOrder(h.descr) ELSE h.descr
         IN ItemNew(raw_descriptor.id, raw_descriptor.name, h.shape, Some(dtype),
                    IF h.fortran_order THEN "F" ELSE "C", None, None)
    ELSE ItemNew(raw_descriptor.id, raw_descriptor.name, raw_descriptor.shape,
                 None, "C", Some(raw_descriptor.format), None)

\* the first loop of update, from descriptor k on
RECURSIVE UpdateDescriptors(_, _, _)
UpdateDescriptors(g, heap, k) ==
    IF k > Len(heap.descriptors) THEN [err |-> "none", g |-> g]
    ELSE LET r == from_raw(heap.descriptors[k], heap.bug_compat)
         IN IF r.err # "none" THEN [err |-> r.err, g |-> g]
            ELSE UpdateDescriptors(_add_item(g, r.item[1]), heap, k + 1)

\* the reserved test gone wrong: no id is reserved
IsReservedNever(raw_item) == FALSE

\* the test "raw_item.id <= 6" of update
IsReserved(raw_item) == raw_item.id <= ReservedIdMax

\* the version assignment gone wrong: one less than the heap's cnt
HeapVersionOffByOne(it, cnt) == [it EXCEPT !.version = cnt - 1]

\* item.version = heap.cnt
HeapVersion(it, cnt) == [it EXCEPT !.version = cnt]

\* the second loop of update, from raw item k on.  updated is the dict
\* updated_items: name -> None or Some(key of the item); when set_from_raw
\* raises, failed holds the key of the item and the item as it was before
\* that call.
RECURSIVE UpdateItems(_, _, _, _)
UpdateItems(g, heap, k, updated) ==
    IF k > Len(heap.items)
    THEN [err |-> "none", g |-> g, updated |-> updated, failed |-> None]
    ELSE LET raw_item == heap.items[k]
         IN IF IsReserved(raw_item)
            THEN UpdateItems(g, heap, k + 1, updated)
            ELSE IF g.by_id[raw_item.id] = None
            THEN UpdateItems(g, heap, k + 1, updated)
            ELSE LET key == <<raw_item.id, g.by_id[raw_item.id][1]>>
                     r == set_from_raw(g.objs[key][1], raw_item)
                 IN IF r.err # "none"
                    THEN [err |-> r.err,
                          g |-> [g EXCEPT !.objs[key] = Some(r.item)],
                          updated |-> updated,
                          failed |-> Some([key |-> key, before |-> g.objs[key][1]])]
                    ELSE UpdateItems(
                            [g EXCEPT !.objs[key] = Some(HeapVersion(r.item, heap.cnt))],
                            heap, k + 1,
                            [updated EXCEPT ![key[2]] = Some(key)])

\* ItemGroup.update; heap is [cnt, bug_compat, descriptors, items]
update(g, heap) ==
    LET d == UpdateDescriptors(g, heap, 1)
        none == [n \in Names |-> None]
    IN IF d.err # "none"
       THEN [err |-> d.err, g |-> d.g, updated |-> none, failed |-> None]
       ELSE UpdateItems(d.g, heap, 1, none)

----------------------------------------------------------------------------
(* The bit stream specification: one writer filled by send() and close(),  *)
(* then one reader over the bytes written.                                 *)

\* the widths sent: 1 + 7 ends on a byte boundary, MaxWidth spans two bytes
Widths == {1, 7, MaxWidth}
\* the values sent with a width: the edges of the range and just outside it
PutValues(bits) == {-1, 0, 1, Shl(1, bits) - 1, Shl(1, bits)}
\* the widths asked of the reader after those in asked: the width of the put
\* at that place, or the widest
TakeWidths ==
    {MaxWidth} \cup (IF Len(asked) < Len(sent) THEN {sent[Len(asked) + 1][2]} ELSE {})

IdleWriter == WriteBitsNew(0)
BitsIdle ==
    /\ writer = IdleWriter /\ reader = None
    /\ sent = <<>> /\ asked = <<>> /\ taken = <<>>
ItemIdle == item = None /\ io = [op |-> "idle"]
GroupIdle ==
    /\ objs = GroupNew.objs /\ by_id = GroupNew.by_id /\ by_name = GroupNew.by_name
    /\ last = [op |-> "idle"]

InitBits ==
    /\ \E size \in 0..MaxBytes : writer = WriteBitsNew(size)
    /\ reader = None /\ sent = <<>> /\ asked = <<>> /\ taken = <<>>
    /\ ItemIdle /\ GroupIdle

\* gen.send((value, bits)) on the writer
Put(value, bits) ==
    /\ writer.err = "none" /\ ~writer.closed /\ reader = None
    /\ Len(sent) < MaxPuts
    /\ writer' = WriteBitsSend(writer, value, bits)
    /\ sent' = Append(sent, <<value, bits>>)
    /\ UNCHANGED <<reader, asked, taken, item, io, objs, by_id, by_name, last>>

\* gen.close() on the writer
Finish ==
    /\ ~writer.closed /\ reader = None
    /\ writer' = WriteBitsClose(writer)
    /\ UNCHANGED <<reader, sent, asked, taken, item, io, objs, by_id, by_name, last>>

\* gen = _read_bits(array); gen.send(None)
StartRead ==
    /\ writer.closed /\ writer.err = "none" /\ reader = None
    /\ reader' = Some(ReadBitsNew(writer.array))
    /\ UNCHANGED <<writer, sent, asked, taken, item, io, objs, by_id, by_name, last>>

\* gen.send(need_bits) on the reader
Take(need_bits) ==
    /\ reader # None /\ reader[1].err = "none"
    /\ Len(asked) < MaxPuts
    /\ LET r == ReadBitsSend(reader[1], need_bits)
       IN /\ reader' = Some(r)
          /\ asked' = Append(asked, need_bits)
          /\ taken' = IF r.err = "none" THEN Append(taken, r.result) ELSE taken
    /\ UNCHANGED <<writer, sent, item, io, objs, by_id, by_name, last>>

NextBits ==
    \/ \E bits \in Widths : \E value \in PutValues(bits) : Put(value, bits)
    \/ Finish
    \/ StartRead
    \/ \E need_bits \in TakeWidths : Take(need_bits)

SpecBits == InitBits /\ [][NextBits]_vars

----------------------------------------------------------------------------
(* The item specification: one Item of a catalogue of descriptors, and the *)
(* calls value = ..., set_from_raw(...) and to_buffer() on it.             *)

\* the id and name of the item
ItemKey == <<10, "a">>

FormatItem(shape, format) ==
    ItemNew(ItemKey[1], ItemKey[2], shape, None, "C", Some(format), None).item[1]
DtypeItem(shape, order, dtype) ==
    ItemNew(ItemKey[1], ItemKey[2], shape, Some(dtype), order, None, None).item[1]

U1 == [kind |-> "u", size |-> 1, byteorder |-> "|"]
U2Big == [kind |-> "u", size |-> 2, byteorder |-> ">"]
I2Little == [kind |-> "i", size |-> 2, byteorder |-> "="]

\* the descriptors of the items: bit-field formats that _parse_format
\* leaves alone (scalar, vector, empty, variable-length, record, bool,
\* character), one format it reduces to a dtype, and dtypes
ItemCatalogue ==
    { FormatItem(<<>>, <<<<"i", 4>>>>),
      FormatItem(<<2>>, <<<<"i", 3>>>>),
      FormatItem(<<1>>, <<<<"i", 3>>, <<"u", 2>>>>),
      FormatItem(<<2, 0>>, <<<<"u", 4>>>>),
      FormatItem(<<-1>>, <<<<"u", 3>>>>),
      FormatItem(<<3>>, <<<<"b", 1>>>>),
      FormatItem(<<1>>, <<<<"c", 7>>>>),
      FormatItem(<<1>>, <<<<"u", 8>>, <<"i", 8>>>>),
      DtypeItem(<<>>, "C", <<U1>>),
      DtypeItem(<<1>>, "C", <<U2Big>>),
      DtypeItem(<<-1>>, "C", <<I2Little>>),
      DtypeItem(<<0>>, "C", <<U1>>),
      DtypeItem(<<2, 2>>, "F", <<U1>>),
      DtypeItem(<<2>>, "C", DtypeS1) }

\* the values assigned to a field: the edges of its range and just outside
FieldValues(code, length) ==
    CASE code = "u" -> {0, Shl(1, length) - 1, Shl(1, length)}
      [] code = "i" -> {-Shl(1, length - 1), -1, Shl(1, length - 1) - 1,
                        Shl(1, length - 1)}
      [] code = "b" -> BOOLEAN
      [] OTHER -> {Chr(65)}

RECURSIVE RecordValues(_)
RecordValues(fmt) ==
    IF fmt = <<>> THEN {<<>>}
    ELSE {<<f>> \o rest : f \in FieldValues(Head(fmt)[1], Head(fmt)[2]),
                          rest \in RecordValues(Tail(fmt))}

LeafValues(fmt) ==
    IF Len(fmt) = 1 THEN FieldValues(fmt[1][1], fmt[1][2]) ELSE RecordValues(fmt)

\* nested sequences over leaves: a fixed dimension d takes d elements (or
\* one fewer, which does not conform), an unknown one up to MaxLen
RECURSIVE NestedValues(_, _)
NestedValues(shape, leaves) ==
    IF shape = <<>> THEN leaves
    ELSE LET lens == IF shape[1] < 0 THEN 0..MaxLen
                     ELSE {n \in {shape[1] - 1, shape[1]} : n >= 0}
         IN UNION {[1..n -> NestedValues(Tail(shape), leaves)] : n \in lens}

\* the values assigned through the setter: None, or a nested list
ValueInputs(it) ==
    {None} \cup
    {Some([nd |-> FALSE, v |-> v]) :
        v \in NestedValues(it.shape,
                 IF it.dtype = None THEN LeafValues(it.format[1]) ELSE {0, 1})}

Buffers(max) == UNION {[1..n -> ByteVals] : n \in 0..max}

RawItemOf(id, value, is_immediate) ==
    [id |-> id, value |-> value, is_immediate |-> is_immediate]
RawItem(value, is_immediate) == RawItemOf(ItemKey[1], value, is_immediate)

\* buffers of one repeated byte
UniformBuffers(max) == UNION {[1..n -> {b}] : n \in 0..max, b \in ByteVals}

\* the raw items decoded by a used item: uniform buffers, immediate or not,
\* and the payload just made by to_buffer
RawInputs ==
    {RawItem(b, imm) : b \in UniformBuffers(MaxBuf), imm \in BOOLEAN}
    \cup (IF io.op = "to_buffer" /\ io.err = "none"
          THEN {RawItem(io.out, FALSE)} ELSE {})

\* the raw items decoded by a new item: any buffer, immediate or not
PadInputs == {RawItem(b, imm) : b \in Buffers(MaxPadBuf), imm \in BOOLEAN}

InitItem ==
    /\ \E it \in ItemCatalogue : item = Some(it)
    /\ io = [op |-> "new"]
    /\ BitsIdle /\ GroupIdle

\* item.value = new_value
SetValue(new_value) ==
    /\ item[1].version < MaxVersion \/ new_value = None
    /\ LET r == ValueSetter(item[1], new_value)
       IN /\ item' = Some(r.item)
          /\ io' = [op |-> "value", err |-> r.err, is_none |-> new_value = None]
    /\ UNCHANGED <<writer, reader, sent, asked, taken, objs, by_id, by_name, last>>

\* item.set_from_raw(raw_item)
SetFromRaw(raw_item) ==
    /\ item[1].version < MaxVersion
    /\ LET r == set_from_raw(item[1], raw_item)
       IN /\ item' = Some(r.item)
          /\ io' = [op |-> "set_from_raw", err |-> r.err, raw |-> raw_item]
    /\ UNCHANGED <<writer, reader, sent, asked, taken, objs, by_id, by_name, last>>

\* item.to_buffer(), for an item in format mode
ToBuffer ==
    /\ item[1].dtype = None
    /\ LET r == to_buffer(item[1])
       IN io' = [op |-> "to_buffer", err |-> r.err, out |-> r.out]
    /\ UNCHANGED <<item, writer, reader, sent, asked, taken, objs, by_id, by_name, last>>

NextItem ==
    \/ \E new_value \in ValueInputs(item[1]) : SetValue(new_value)
    \/ \E raw_item \in RawInputs : SetFromRaw(raw_item)
    \/ ToBuffer

SpecItem == InitItem /\ [][NextItem]_vars

\* the first set_from_raw of a new item, over the longer buffers
NextPad == \E raw_item \in PadInputs : io.op = "new" /\ SetFromRaw(raw_item)

SpecPad == InitItem /\ [][NextPad]_vars

----------------------------------------------------------------------------
(* The shape specification: one descriptor of any shape up to MaxRank, and *)
(* the call dynamic_shape(max_elements) on it.                             *)

\* the entries of a shape: two unknowns, an empty dimension, and sizes
Dims == {-2, -1, 0, 1, 2, 3}
ShapeInputs == UNION {[1..n -> Dims] : n \in 0..MaxRank}

InitShape ==
    /\ \E shape \in ShapeInputs : item = Some(FormatItem(shape, <<<<"u", 4>>>>))
    /\ io = [op |-> "new"]
    /\ BitsIdle /\ GroupIdle

\* item.dynamic_shape(max_elements)
ResolveShape(max_elements) ==
    /\ LET r == dynamic_shape(item[1].shape, max_elements)
       IN io' = [op |-> "dynamic_shape", max_elements |-> max_elements,
                 err |-> r.err, shape |-> r.shape]
    /\ UNCHANGED <<item, writer, reader, sent, asked, taken, objs, by_id, by_name, last>>

NextShape == \E max_elements \in 0..MaxElements : ResolveShape(max_elements)

SpecShape == InitShape /\ [][NextShape]_vars

----------------------------------------------------------------------------
(* The group specification: one ItemGroup, add_item and update on it, and  *)
(* value assignments and set_from_raw on the items it holds.               *)

\* the descriptors offered for an id: a byte scalar in dtype mode, or (id
\* 11) a pair of 4-bit fields in format mode
GroupFormat == <<<<"u", 4>>>>
GroupRawDescriptor(id, name) ==
    IF id = 11
    THEN [id |-> id, name |-> name, shape |-> <<2>>, format |-> GroupFormat,
          numpy_header |-> None]
    ELSE [id |-> id, name |-> name, shape |-> <<>>, format |-> <<>>,
          numpy_header |-> Some([shape |-> <<>>, fortran_order |-> FALSE,
                                 descr |-> <<U1>>])]

\* the descriptors heaps bring: those whose id is not reserved
HeapDescriptors ==
    {GroupRawDescriptor(k[1], k[2]) : k \in {x \in ObjKeys : x[1] > ReservedIdMax}}

\* the buffers of raw items: one byte, or none, which is too short for
\* every descriptor offered
GroupBuffers == {<<129>>, <<>>}

\* the raw items of heaps: one byte for each id (an id is unknown while the
\* group holds no item for it), and for id 10 also the short buffer
GroupRawItems ==
    {RawItemOf(id, <<129>>, FALSE) : id \in ItemIds}
    \cup {RawItemOf(10, <<>>, FALSE)}

\* as src/tests/test.py builds its stream
BUG_COMPAT_PYSPEAD_0_5_2 == {"DESCRIPTOR_WIDTHS", "SHAPE_BIT_1", "SWAP_ENDIAN"}

\* heaps: at most one descriptor and at most two raw items
Heaps ==
    [cnt : {1, MaxCnt},
     bug_compat : {BUG_COMPAT_PYSPEAD_0_5_2},
     descriptors : {<<>>} \cup {<<d>> : d \in HeapDescriptors},
     items : {<<>>} \cup {<<r>> : r \in GroupRawItems}
             \cup {<<r1, r2>> : r1 \in GroupRawItems, r2 \in GroupRawItems}]

\* the values assigned to an item of the group through the setter
GroupValues(it) ==
    {None, Some([nd |-> FALSE, v |-> IF it.dtype = None THEN <<8, 1>> ELSE 129])}

Group == [objs |-> objs, by_id |-> by_id, by_name |-> by_name]

Live == {k \in ObjKeys : objs[k] # None}

SetGroup(g) ==
    /\ objs' = Collect(g).objs
    /\ by_id' = g.by_id
    /\ by_name' = g.by_name

Init ==
    /\ objs = GroupNew.objs /\ by_id = GroupNew.by_id /\ by_name = GroupNew.by_name
    /\ last = [op |-> "new"]
    /\ BitsIdle /\ ItemIdle

\* group.add_item(id, name, ...)
AddItem(id, name) ==
    LET rd == GroupRawDescriptor(id, name)
        r == IF rd.numpy_header # None
             THEN ItemNew(id, name, rd.numpy_header[1].shape,
                          Some(rd.numpy_header[1].descr), "C", None, None)
             ELSE ItemNew(id, name, rd.shape, None, "C", Some(rd.format), None)
    IN /\ r.err = "none"
       /\ SetGroup(_add_item(Group, r.item[1]))
       /\ last' = [op |-> "add_item", err |-> "none", installed |-> {<<id, name>>}]
       /\ UNCHANGED <<writer, reader, sent, asked, taken, item, io>>

\* group[key].value = new_value
AssignValue(key, new_value) ==
    /\ objs[key] # None /\ objs[key][1].version < MaxCnt
    /\ LET r == ValueSetter(objs[key][1], new_value)
       IN /\ objs' = [objs EXCEPT ![key] = Some(r.item)]
          /\ last' = [op |-> "value", err |-> r.err, installed |-> {}, key |-> key]
    /\ UNCHANGED <<by_id, by_name, writer, reader, sent, asked, taken, item, io>>

\* group[key].set_from_raw(raw_item)
AssignFromRaw(key, raw_item) ==
    /\ objs[key] # None /\ objs[key][1].version < MaxCnt
    /\ LET r == set_from_raw(objs[key][1], raw_item)
       IN /\ objs' = [objs EXCEPT ![key] = Some(r.item)]
          /\ last' = [op |-> "set_from_raw", err |-> r.err, installed |-> {},
                      key |-> key, raw |-> raw_item]
    /\ UNCHANGED <<by_id, by_name, writer, reader, sent, asked, taken, item, io>>

\* group.update(heap)
Update(heap) ==
    /\ LET r == update(Group, heap)
       IN /\ SetGroup(r.g)
          /\ last' = [op |-> "update", err |-> r.err, cnt |-> heap.cnt,
                      carried |-> {heap.items[k].id : k \in 1..Len(heap.items)},
                      empty |-> {heap.items[k].id : k \in
                                    {j \in 1..Len(heap.items) : heap.items[j].value = <<>>}},
                      installed |-> {<<heap.descriptors[k].id, heap.descriptors[k].name>> :
                                        k \in 1..Len(heap.descriptors)},
                      updated |-> r.updated, failed |-> r.failed]
    /\ UNCHANGED <<writer, reader, sent, asked, taken, item, io>>

Next ==
    \/ \E key \in ObjKeys : AddItem(key[1], key[2])
    \/ \E key \in Live : \E new_value \in GroupValues(objs[key][1]) :
            AssignValue(key, new_value)
    \/ \E key \in Live : \E b \in GroupBuffers :
            AssignFromRaw(key, RawItemOf(key[1], b, FALSE))
    \/ \E heap \in Heaps : Update(heap)

Spec == Init /\ [][Next]_vars

----------------------------------------------------------------------------
(* The bit stream as a sequence of bits, for stating what was written *)

RECURSIVE SumWidths(_)
SumWidths(s) == IF s = <<>> THEN 0 ELSE Head(s)[2] + SumWidths(Tail(s))

\* bit p (from 0, most significant first) of the stream of the pairs s;
\* 0 past its end
StreamBit(s, p) ==
    IF p >= SumWidths(s) THEN 0
    ELSE LET j == CHOOSE j \in 1..Len(s) :
                     /\ SumWidths(SubSeq(s, 1, j - 1)) <= p
                     /\ p < SumWidths(SubSeq(s, 1, j))
             off == p - SumWidths(SubSeq(s, 1, j - 1))
         IN Shr(s[j][1], s[j][2] - 1 - off) % 2

RECURSIVE StreamByteFrom(_, _, _)
StreamByteFrom(s, i, b) ==
    IF b > 7 THEN 0
    ELSE StreamBit(s, 8 * (i - 1) + b) * Pow2(7 - b) + StreamByteFrom(s, i, b + 1)

\* byte i (from 1) of the stream, the bits past its end being zero
StreamByte(s, i) == StreamByteFrom(s, i, 0)

CeilBytes(nbits) == (nbits + 7) \div 8

AllInRange(s) == \A k \in 1..Len(s) : 0 <= s[k][1] /\ s[k][1] < Pow2(s[k][2])

AskedMatchesSent ==
    /\ Len(asked) <= Len(sent)
    /\ \A k \in 1..Len(asked) : asked[k] = sent[k][2]

\* C7: bit-stream duality.  Pairs (value, width) with 0 <= value < 2^width,
\* written in order into a buffer of ceil(sum of widths / 8) bytes and
\* finished, fill the buffer exactly, most significant bit first, the bits
\* of the last byte that were not written being zero; reading the same widths
\* in order over that buffer returns the values written; and a put of a
\* value < 0 or >= 2^width fails.
BitStreamDuality ==
    /\ (writer.closed /\ AllInRange(sent)
            /\ Len(writer.array) = CeilBytes(SumWidths(sent)))
        => /\ writer.err = "none"
           /\ writer.pos + (IF writer.current_bits > 0 THEN 1 ELSE 0)
                 = Len(writer.array)
           /\ \A i \in 1..Len(writer.array) : writer.array[i] = StreamByte(sent, i)
    /\ (reader # None /\ AskedMatchesSent
            /\ Len(writer.array) = CeilBytes(SumWidths(sent)))
        => /\ reader[1].err = "none"
           /\ Len(taken) = Len(asked)
           /\ \A k \in 1..Len(asked) : taken[k] = sent[k][1]
    /\ (sent # <<>> /\ ~AllInRange(sent)) => writer.err = "ValueError"

\* C7 witness: three fields, one of them wider than a byte, ending inside a
\* byte, were written into a buffer of the exact size and all read back
BitStreamDualityWitness ==
    /\ reader # None /\ AskedMatchesSent /\ Len(asked) = Len(sent)
    /\ Len(sent) >= 3 /\ AllInRange(sent)
    /\ Len(writer.array) = CeilBytes(SumWidths(sent))
    /\ SumWidths(sent) % 8 # 0
    /\ \E k \in 1..Len(sent) : sent[k][2] > 8 /\ sent[k][1] > 1
    /\ reader[1].err = "none"

----------------------------------------------------------------------------
(* Claims about one item *)

\* the value of the item, bare
ItemValue(it) == it._value[1].v

\* C1: format-mode round trip.  For a format-mode item of fixed shape whose
\* value to_buffer serialized (so its fields were in range), decoding the
\* bytes produced with set_from_raw as a payload item yields the same nested
\* structure, element for element.
FormatRoundTrip ==
    (io.op = "to_buffer" /\ io.err = "none" /\ item[1].dtype = None
        /\ ~is_variable_size(item[1]))
    => LET r == set_from_raw(item[1], RawItem(io.out, FALSE))
       IN r.err = "none" /\ ItemValue(r.item) = ItemValue(item[1])

\* C5: every successful assignment of an item's value, by the setter or by
\* set_from_raw, increases version by exactly 1; assigning None fails and
\* leaves value and version as they were; a value once assigned is never
\* absent again.
AssignmentBumpsVersion ==
    [][ /\ (io'.op \in {"value", "set_from_raw"} /\ io'.err = "none")
            => /\ item'[1].version = item[1].version + 1
               /\ item'[1]._value # None
        /\ (io'.op = "value" /\ io'.is_none)
            => io'.err = "ValueError" /\ item' = item
        /\ (item[1]._value # None) => (item'[1]._value # None) ]_vars

\* C5 witness: an item that was assigned twice, first by the setter and
\* then by set_from_raw, has refused None
AssignmentBumpsVersionWitness ==
    /\ io.op = "value" /\ io.is_none /\ io.err = "ValueError"
    /\ item # None /\ item[1]._value # None /\ item[1]._value[1].nd
    /\ item[1].version = 3

\* the bytes a value of the item's fixed shape occupies
UsedBytes(it) ==
    IF it.dtype = None
    THEN (Product(it.shape) * FormatBits(it.format[1]) + 7) \div 8
    ELSE Product(it.shape) * DtypeItemsize(it.dtype[1])

\* the last k bytes of a buffer
LastBytes(buf, k) == SubSeq(buf, Len(buf) - k + 1, Len(buf))

\* C9: immediate padding.  For an item of fixed shape whose value occupies
\* k bytes and a buffer of n >= k bytes (k = 0 with n > 0 included),
\* set_from_raw on the whole buffer flagged immediate yields the same value
\* as set_from_raw on its last k bytes flagged payload.
ImmediatePadding ==
    (io.op = "set_from_raw" /\ io.raw.is_immediate /\ ~is_variable_size(item[1])
        /\ Len(io.raw.value) >= UsedBytes(item[1]))
    => LET k == UsedBytes(item[1])
           p == set_from_raw(item[1], RawItem(LastBytes(io.raw.value, k), FALSE))
       IN /\ (io.err = "none") = (p.err = "none")
          /\ io.err = "none" => item[1]._value = p.item._value

\* a field value is in the range of its code and length
FieldFits(code, length, field) ==
    CASE code = "u" -> 0 <= field /\ field < Pow2(length)
      [] code = "i" -> -Pow2(length - 1) <= field /\ field < Pow2(length - 1)
      [] OTHER -> TRUE

\* a record of the format: the bare field of a one-field format, else a tuple
RecordFits(fmt, leaf) ==
    IF Len(fmt) = 1 THEN FieldFits(fmt[1][1], fmt[1][2], leaf)
    ELSE /\ Len(leaf) = Len(fmt)
         /\ \A k \in 1..Len(fmt) : FieldFits(fmt[k][1], fmt[k][2], leaf[k])

\* the nested value has the lengths the shape gives (any length for the
\* unknown dimension) and records that fit the format
RECURSIVE Conforms(_, _, _)
Conforms(fmt, shape, v) ==
    IF shape = <<>> THEN RecordFits(fmt, v)
    ELSE /\ shape[1] < 0 \/ Len(v) = shape[1]
         /\ \A k \in 1..Len(v) : Conforms(fmt, Tail(shape), v[k])

\* the number of records in a nested value of the depth of shape
RECURSIVE Records(_, _)
Records(shape, v) ==
    IF shape = <<>> THEN 1
    ELSE IF Len(v) = 0 THEN 0
    ELSE Records(Tail(shape), Head(v)) + Records(shape, Tail(v))

\* C11: format-mode to_buffer size.  For a format-mode item whose value
\* conforms to the descriptor's shape, be it a numeric array (as stored by
\* set_from_raw) or a nested sequence, to_buffer succeeds and returns a
\* buffer of exactly ceil(W * N / 8) bytes, W the sum of the format's field
\* widths and N the number of records in the value; to_buffer on an item
\* whose value is absent fails.
ToBufferSize ==
    (io.op = "to_buffer" /\ item[1].dtype = None) =>
        IF item[1]._value = None THEN io.err = "ValueError"
        ELSE Conforms(item[1].format[1], item[1].shape, ItemValue(item[1])) =>
                /\ io.err = "none"
                /\ Len(io.out) = CeilBytes(FormatBits(item[1].format[1])
                                        * Records(item[1].shape, ItemValue(item[1])))

\* the unknown entries of a shape, and the product of the others
Unknowns(shape) == {k \in 1..Len(shape) : shape[k] < 0}
KnownProduct(shape) ==
    Product([k \in 1..Len(shape) |-> IF shape[k] < 0 THEN 1 ELSE shape[k]])

\* C8: shape resolution.  For a shape with exactly one negative entry and
\* max_elements >= 0, dynamic_shape returns the shape with the fixed entries
\* unchanged and the unknown replaced by a nonnegative integer such that the
\* product of the result is <= max_elements and is the largest multiple of
\* the known product not exceeding max_elements (the unknown is 0 when the
\* known product is 0); a shape with no negative entry is returned
\* unchanged; a shape with two or more negative entries fails with TypeError.
ShapeResolution ==
    (io.op = "dynamic_shape") =>
        LET shape == item[1].shape
            known == KnownProduct(shape)
            total == Product(io.shape)
        IN /\ Unknowns(shape) = {} => io.err = "none" /\ io.shape = shape
           /\ Cardinality(Unknowns(shape)) >= 2 => io.err = "TypeError"
           /\ Cardinality(Unknowns(shape)) = 1 =>
                /\ io.err = "none"
                /\ Len(io.shape) = Len(shape)
                /\ \A k \in 1..Len(shape) :
                      IF shape[k] < 0 THEN io.shape[k] >= 0
                      ELSE io.shape[k] = shape[k]
                /\ total <= io.max_elements
                /\ known = 0 => \A k \in Unknowns(shape) : io.shape[k] = 0
                /\ known > 0 =>
                      /\ total % known = 0
                      /\ total + known > io.max_elements

\* C8 witness: the shape (2, -1, 3) with max_elements = 7 resolved to
\* (2, 1, 3), the largest multiple of 6 not above 7
ShapeResolutionWitness ==
    /\ io.op = "dynamic_shape" /\ io.err = "none" /\ io.max_elements = 7
    /\ item[1].shape = <<2, -1, 3>> /\ io.shape = <<2, 1, 3>>

----------------------------------------------------------------------------
(* Claims about the group *)

\* C2: dual-key consistency.  After any sequence of add_item and update
\* calls the items reachable by id are the items reachable by name:
\* _by_id[i] is an item named n exactly when _by_name[n] is that item.
DualKeyConsistency ==
    \A i \in ItemIds, n \in Names : (by_id[i] = Some(n)) <=> (by_name[n] = Some(i))

\* the names update is to return: of the items whose id a raw item of the
\* heap carries, that id being above the reserved ones and having an item
SurfacedNames(carried, ids) ==
    {ids[i][1] : i \in {j \in carried : j > ReservedIdMax /\ ids[j] # None}}

\* C3: update(heap) returns a mapping whose keys are exactly the names of
\* the items whose id a raw item of the heap carries with id > 6 and a known
\* descriptor (the heap's own descriptors installed); no item with an id <= 6
\* is in it; raw items with an unknown id are skipped without raising and
\* without changing any item.
UpdateReturnsKnownItems ==
    [][ (last'.op = "update") =>
        /\ (last'.err = "none") =>
              /\ {n \in Names : last'.updated[n] # None}
                    = SurfacedNames(last'.carried, by_id')
              /\ \A n \in Names : last'.updated[n] # None =>
                    /\ last'.updated[n][1][1] > ReservedIdMax
                    /\ last'.updated[n][1][1] \in last'.carried
                    /\ last'.updated[n][1][2] = n
        /\ (\A i \in last'.carried : i <= ReservedIdMax \/ by_id'[i] = None) =>
              /\ last'.err = "none"
              /\ \A k \in ObjKeys \ last'.installed :
                    objs'[k] # None => objs'[k] = objs[k] ]_vars

\* C3 witness: a heap carried the reserved id 5 and the id 10, the group
\* holding an item for each, and update returned the item 10 alone
UpdateReturnsKnownItemsWitness ==
    /\ last.op = "update" /\ last.err = "none" /\ last.carried = {5, 10}
    /\ by_id[5] # None /\ objs[<<5, "a">>] # None /\ objs[<<5, "a">>][1]._value = None
    /\ last.updated["b"] = Some(<<10, "b">>) /\ last.updated["a"] = None

\* C4: after update(heap) returns, every item of the returned mapping has
\* version = heap.cnt, and the items not in it keep their version.
HeapVersionAssigned ==
    [][ (last'.op = "update" /\ last'.err = "none") =>
        \A k \in ObjKeys : objs'[k] # None =>
            IF \E n \in Names : last'.updated[n] = Some(k)
            THEN objs'[k][1].version = last'.cnt
            ELSE k \notin last'.installed =>
                    /\ objs[k] # None
                    /\ objs'[k][1].version = objs[k][1].version ]_vars

\* the object k of the state before is still the object k
SameObject(k) == objs[k] # None /\ objs'[k] # None /\ k \notin last'.installed

\* C6, as stated: the version of an item never decreases, whatever value
\* assignments and update calls are applied.
VersionMonotonic ==
    [][ \A k \in ObjKeys : SameObject(k) =>
            objs'[k][1].version >= objs[k][1].version ]_vars

\* C6, amended: the version of an item never decreases under value
\* assignments and set_from_raw; update sets the version of the items whose
\* id the heap carries to heap.cnt, which may be lower, and lowers the
\* version of no other item.
VersionMonotonicButHeap ==
    [][ \A k \in ObjKeys : SameObject(k) =>
            \/ objs'[k][1].version >= objs[k][1].version
            \/ /\ last'.op = "update"
               /\ k[1] \in last'.carried /\ k[1] > ReservedIdMax
               /\ by_id'[k[1]] = Some(k[2])
               /\ objs'[k][1].version = last'.cnt ]_vars

\* C6 witness: update with cnt = 1 set the version of one item to 1 while
\* another item kept the version its assignment gave it
VersionMonotonicButHeapWitness ==
    /\ last.op = "update" /\ last.err = "none" /\ last.cnt = 1
    /\ \E k \in ObjKeys, k2 \in ObjKeys :
          /\ last.updated[k[2]] = Some(k) /\ objs[k][1].version = 1
          /\ k2 # k /\ objs[k2] # None /\ objs[k2][1].version = MaxCnt
          /\ objs[k2][1]._value # None

\* the raw buffer offers fewer element slots than the item's fixed shape has
\* elements
Undersized(it, raw_item) ==
    /\ ~is_variable_size(it)
    /\ Product(it.shape) >
          (IF it.dtype = None
           THEN (Len(raw_item.value) * 8) \div FormatBits(it.format[1])
           ELSE Len(raw_item.value) \div DtypeItemsize(it.dtype[1]))

\* C10: undersize rejection.  set_from_raw on a buffer with fewer element
\* slots than the shape has elements fails with ValueError and leaves the
\* item's value and version as they were; in update the error reaches the
\* caller, and the item is left as it was before the failing raw item: its
\* version is not set to heap.cnt by it.
UndersizeRejected ==
    [][ /\ (last'.op = "set_from_raw"
                /\ Undersized(objs[last'.key][1], last'.raw))
            => /\ last'.err = "ValueError"
               /\ objs'[last'.key] = objs[last'.key]
        /\ (last'.op = "update" /\ last'.failed # None)
            => LET k == last'.failed[1].key
               IN /\ last'.err # "none"
                  /\ objs'[k] = Some(last'.failed[1].before)
                  /\ \/ objs'[k] = objs[k]
                     \/ k \in last'.installed
                           /\ last'.failed[1].before._value = None
                           /\ last'.failed[1].before.version = 1
                     \/ k[1] \in last'.carried
                           /\ last'.failed[1].before.version = last'.cnt
        /\ (last'.op = "update"
                /\ \E i \in last'.empty :
                      /\ i > ReservedIdMax /\ by_id'[i] # None
                      /\ Undersized(objs'[<<i, by_id'[i][1]>>][1],
                                    RawItemOf(i, <<>>, FALSE)))
            => last'.err = "ValueError" /\ last'.failed # None ]_vars

\* C10 witness: update with cnt = 1 failed on an undersized raw item for an
\* item that had a value and a higher version, and the item has them still
UndersizeRejectedWitness ==
    /\ last.op = "update" /\ last.err = "ValueError" /\ last.failed # None
    /\ last.cnt = 1 /\ last.carried = {10}
    /\ objs[last.failed[1].key] # None
    /\ objs[last.failed[1].key][1]._value # None
    /\ objs[last.failed[1].key][1].version = MaxCnt

=============================================================================
